---- MODULE Spec2Model ----
(***************************************************************************)
(* Model of msccjson (src/src/main.rs): a two-phase, multi-threaded        *)
(* converter from an msbuild log to a compile_commands.json database.      *)
(*                                                                         *)
(* Text is modelled character by character: a string is a sequence of      *)
(* one-character strings, so that path parsing, quote stripping,           *)
(* whitespace splitting and case folding are computed, not assumed.        *)
(* An Option<T> is a sequence of length 0 (None) or 1 (Some(x)).           *)
(***************************************************************************)
EXTENDS Integers, Sequences, FiniteSets, TLC

(***************************************************************************)
(* Bounds of the model.                                                    *)
(***************************************************************************)
\* longest last token drawn for the Synthesizer's bounded inputs
MaxTokLen == 4
\* longest log line drawn for the LineFilter's bounded inputs
MaxLineLen == 3
\* most lines a modelled log holds
MaxLog == 2
\* most files a generated source tree holds
MaxFiles == 4

(***************************************************************************)
(* Strings.                                                                *)
(***************************************************************************)
None == << >>

Some(x) == << x >>

IsSome(o) == Len(o) = 1

Unwrap(o) == o[1]

Last(s) == s[Len(s)]

Front(s) == SubSeq(s, 1, Len(s) - 1)

\* all sequences over S of length 0..n
SeqsUpTo(S, n) == UNION { [1..k -> S] : k \in 0..n }

\* F applied to the value of x: a local binding (let q = ..) whose right-hand
\* side is computed once, before the body that uses it
With(x, F(_)) == CHOOSE r \in { F(v) : v \in {x} } : TRUE

\* position of the last occurrence of character c in s at or after index lo, 0 if none
RPosition(s, c, lo) ==
    With({ i \in lo..Len(s) : s[i] = c }, LAMBDA hits :
      IF hits = {} THEN 0 ELSE CHOOSE i \in hits : \A j \in hits : j <= i)

(***************************************************************************)
(* std::path on Unix, as used by the program.                              *)
(***************************************************************************)
Sep == "/"

Dot == "."

\* Components::has_physical_root
HasRoot(p) == Len(p) >= 1 /\ p[1] = Sep

\* Components::include_cur_dir: a leading "." that is a whole component
IncludeCurDir(p) ==
    /\ ~HasRoot(p)
    /\ Len(p) >= 1
    /\ p[1] = Dot
    /\ (Len(p) = 1 \/ p[2] = Sep)

\* Components::len_before_body
LenBeforeBody(p) == (IF HasRoot(p) THEN 1 ELSE 0) + (IF IncludeCurDir(p) THEN 1 ELSE 0)

\* Components::parse_next_component_back: the text after the last separator
\* of the body, and the number of characters it and that separator take
BackComp(p, start) ==
    With(RPosition(p, Sep, start + 1), LAMBDA i :
      IF i = 0 THEN [comp |-> SubSeq(p, start + 1, Len(p)), size |-> Len(p) - start]
      ELSE [comp |-> SubSeq(p, i + 1, Len(p)), size |-> Len(p) - i + 1])

\* parse_single_component yields no component for "" and for "."
IsSkipped(comp) == comp = << >> \/ comp = << Dot >>

\* Components::trim_right: drop trailing separators and "." components of the body
RECURSIVE TrimRight(_, _)
TrimRight(p, start) ==
    IF Len(p) <= start THEN p
    ELSE With(BackComp(p, start), LAMBDA b :
           IF IsSkipped(b.comp)
           THEN With(SubSeq(p, 1, Len(p) - b.size), LAMBDA q : TrimRight(q, start))
           ELSE p)

\* Path::file_name: the last component when it is a normal one
FileName(p) ==
    LET start == LenBeforeBody(p)
    IN With(TrimRight(p, start), LAMBDA q :
         IF Len(q) <= start THEN None
         ELSE With(BackComp(q, start), LAMBDA b :
                IF b.comp = << Dot, Dot >> THEN None ELSE Some(b.comp)))

\* Parent with no parent for a lone component (None where Path::parent
\* gives the empty path)
Parent_NoneForBare(p) ==
    LET start == LenBeforeBody(p)
    IN With(TrimRight(p, start), LAMBDA q :
         IF Len(q) <= start THEN None
         ELSE With(BackComp(q, start), LAMBDA b :
                IF Len(q) - b.size = 0 THEN None
                ELSE Some(TrimRight(SubSeq(q, 1, Len(q) - b.size), start))))

\* Path::parent: the path without its last component; None when the path is
\* empty or ends in the root
Parent(p) ==
    LET start == LenBeforeBody(p)
    IN With(TrimRight(p, start), LAMBDA q :
         IF Len(q) <= start
         THEN IF HasRoot(p) \/ ~IncludeCurDir(p) THEN None ELSE Some(<< >>)
         ELSE LET b == BackComp(q, start)
              IN Some(TrimRight(SubSeq(q, 1, Len(q) - b.size), start)))

\* rsplit_file_at_dot and Path::extension: the text after the last dot of the
\* file name, unless there is no dot or the only dot is the first character
Extension(p) ==
    With(FileName(p), LAMBDA fn :
      IF ~IsSome(fn) THEN None
      ELSE LET f == Unwrap(fn)
           IN With(RPosition(f, Dot, 1), LAMBDA i :
                IF i = 0 \/ i = 1 THEN None ELSE Some(SubSeq(f, i + 1, Len(f)))))

\* Path::join as DirEntry::path uses it: root.join(file_name)
Join(dir, name) ==
    IF dir = << >> THEN name
    ELSE IF Last(dir) = Sep THEN dir \o name
    ELSE dir \o << Sep >> \o name

(***************************************************************************)
(* Line-level text transforms of the streaming stages.                     *)
(***************************************************************************)
\* char::to_lowercase on the letters the model's alphabet holds
LowerChar(c) ==
    CASE c = "C" -> "c"
      [] c = "L" -> "l"
      [] c = "E" -> "e"
      [] c = "X" -> "x"
      [] OTHER -> c

\* str::to_lowercase
ToLowercase(s) == [i \in 1..Len(s) |-> LowerChar(s[i])]

\* str::contains: the empty pattern is contained in every string
Contains(h, n) == \E i \in 0..(Len(h) - Len(n)) : SubSeq(h, i + 1, i + Len(n)) = n

\* find_all_lines' test of one line against the configured name s
LineMatches(line, s) == Contains(ToLowercase(line), s)

Quote == "\""

\* cleanup_line: s.replace("\"", "")
StripQuotes(s) == SelectSeq(s, LAMBDA c : c # Quote)

IsWhitespace(c) == c \in {" ", "\t"}

\* length of the longest prefix of s holding no whitespace
RECURSIVE WordLen(_)
WordLen(s) ==
    IF s = << >> \/ IsWhitespace(Head(s)) THEN 0 ELSE 1 + WordLen(Tail(s))

\* tokenize_lines: s.split_whitespace().map(String::from).collect()
RECURSIVE SplitWhitespace(_)
SplitWhitespace(s) ==
    IF s = << >> THEN << >>
    ELSE IF IsWhitespace(Head(s)) THEN SplitWhitespace(Tail(s))
    ELSE With(WordLen(s), LAMBDA n :
           << SubSeq(s, 1, n) >>
             \o With(SubSeq(s, n + 1, Len(s)), LAMBDA rest : SplitWhitespace(rest)))

(***************************************************************************)
(* The index builder's and the Synthesizer's per-item computations.        *)
(***************************************************************************)
EmptyMap == [k \in {} |-> << >>]

\* HashMap::insert of a key that may be new
MapPut(m, k, v) == [x \in DOMAIN m \cup {k} |-> IF x = k THEN v ELSE m[x]]

\* IndexFile with the collision arm overwriting the entry (a plain insert)
IndexFile_Overwrite(m, path) ==
    IF IsSome(Extension(path))
    THEN MapPut(m, Unwrap(FileName(path)), Unwrap(Parent(path)))
    ELSE m

\* build_file_map, the body of its loop for one received path: a file with an
\* extension is entered under its name on first sight, and the entry's
\* directory is cleared (made the empty path) on every later sight
IndexFile(m, path) ==
    IF IsSome(Extension(path))
    THEN With(Unwrap(FileName(path)), LAMBDA file_name :
           LET parent == Unwrap(Parent(path))
           IN IF file_name \notin DOMAIN m
              THEN MapPut(m, file_name, parent)
              ELSE [m EXCEPT ![file_name] = << >>])
    ELSE m

\* build_file_map's two unwraps (lines 99, 100) for a received path: one of
\* them is applied to None
IndexPanics(path) ==
    /\ IsSome(Extension(path))
    /\ (~IsSome(FileName(path)) \/ ~IsSome(Parent(path)))

\* a diagnostic: the message's fixed text and the values formatted into it
Diagnostic(msg, arg) == [msg |-> msg, arg |-> arg]

MsgEmpty == "Token vector is empty!"

MsgNoFileName == "Expected file name as last token in"

MsgNoExtension == "Expected file extension in"

MsgNotFound == "Path not found for"

MsgReadDir == "read_dir error for"

MsgReadEntry == "Failed to read from"

\* CompileCommand with the path token taken out of the arguments
CompileCommand_DropsPathToken(file, directory, arguments) ==
    [file |-> file, directory |-> directory, arguments |-> Front(arguments)]

CompileCommand(file, directory, arguments) ==
    [file |-> file, directory |-> directory, arguments |-> arguments]

\* what one iteration of the Synthesizer's loop does with a token list:
\* the records sent on tx, the diagnostics sent on error_tx, whether
\* map.get was called, and whether the iteration panicked
Outcome(cc, diag, consulted, panicked) ==
    [cc |-> cc, diag |-> diag, consulted |-> consulted, panicked |-> panicked]

\* ResolveDirectory with an unresolved name dropped without a diagnostic
ResolveDirectory_SilentDrop(map, t, path, file_name) ==
    LET parent == Unwrap(Parent(path))
    IN IF Len(parent) = 0
       THEN IF file_name \in DOMAIN map
            THEN Outcome(<< CompileCommand(file_name, map[file_name], t) >>, << >>, TRUE, FALSE)
            ELSE Outcome(<< >>, << >>, TRUE, FALSE)
       ELSE Outcome(<< CompileCommand(file_name, parent, t) >>, << >>, FALSE, FALSE)

\* ResolveDirectory with the index asked first and the token's own
\* directory used only for a name the index lacks
ResolveDirectory_IndexFirst(map, t, path, file_name) ==
    IF file_name \in DOMAIN map
    THEN Outcome(<< CompileCommand(file_name, map[file_name], t) >>, << >>, TRUE, FALSE)
    ELSE IF Len(Unwrap(Parent(path))) = 0
    THEN Outcome(<< >>, << Diagnostic(MsgNotFound, << file_name >>) >>, TRUE, FALSE)
    ELSE Outcome(<< CompileCommand(file_name, Unwrap(Parent(path)), t) >>, << >>, TRUE, FALSE)

\* the directory resolution of create_compile_commands: the token's own
\* parent, or the index's entry when that parent is the empty path
ResolveDirectory(map, t, path, file_name) ==
    LET parent == Unwrap(Parent(path))
    IN IF Len(parent) = 0
       THEN IF file_name \in DOMAIN map
            THEN Outcome(<< CompileCommand(file_name, map[file_name], t) >>, << >>, TRUE, FALSE)
            ELSE Outcome(<< >>, << Diagnostic(MsgNotFound, << file_name >>) >>, TRUE, FALSE)
       ELSE Outcome(<< CompileCommand(file_name, parent, t) >>, << >>, FALSE, FALSE)

\* Synthesize with the extension tested before the file name
Synthesize_ExtensionFirst(map, t) ==
    IF Len(t) = 0
    THEN Outcome(<< >>, << Diagnostic(MsgEmpty, << >>) >>, FALSE, FALSE)
    ELSE LET path == Last(t)
         IN IF ~IsSome(Extension(path))
            THEN Outcome(<< >>, << Diagnostic(MsgNoExtension, << path >>) >>, FALSE, FALSE)
            ELSE IF ~IsSome(FileName(path))
            THEN Outcome(<< >>, << Diagnostic(MsgNoFileName, t) >>, FALSE, FALSE)
            ELSE ResolveDirectory(map, t, path, Unwrap(FileName(path)))

\* create_compile_commands, the body of its loop for one received token list
Synthesize(map, t) ==
    IF Len(t) = 0
    THEN Outcome(<< >>, << Diagnostic(MsgEmpty, << >>) >>, FALSE, FALSE)
    ELSE LET path == Last(t)
         IN IF ~IsSome(FileName(path))
            THEN Outcome(<< >>, << Diagnostic(MsgNoFileName, t) >>, FALSE, FALSE)
            ELSE IF ~IsSome(Extension(path))
            THEN Outcome(<< >>, << Diagnostic(MsgNoExtension, << path >>) >>, FALSE, FALSE)
            ELSE With(Unwrap(FileName(path)), LAMBDA file_name :
                   IF Len(file_name) = 0 \/ ~IsSome(Parent(path))
                   THEN Outcome(<< >>, << >>, FALSE, TRUE)
                   ELSE ResolveDirectory(map, t, path, file_name))

(***************************************************************************)
(* Concrete inputs of the pipeline: texts, source trees, logs.             *)
(***************************************************************************)
\* the text  cl.exe
S_cl_exe ==
    << "c", "l", ".", "e", "x", "e" >>

\* the text  /src
S_src ==
    << "/", "s", "r", "c" >>

\* the text  app
S_app ==
    << "a", "p", "p" >>

\* the text  lib
S_lib ==
    << "l", "i", "b" >>

\* the text  main.cpp
S_main_cpp ==
    << "m", "a", "i", "n", ".", "c", "p", "p" >>

\* the text  util.cpp
S_util_cpp ==
    << "u", "t", "i", "l", ".", "c", "p", "p" >>

\* the text  README
S_README ==
    << "R", "E", "A", "D", "M", "E" >>

\* the text  /src/app
S_src_app ==
    << "/", "s", "r", "c", "/", "a", "p", "p" >>

\* the text  /src/lib
S_src_lib ==
    << "/", "s", "r", "c", "/", "l", "i", "b" >>

\* the text  cl.exe /c /Ox main.cpp
L_bare ==
    << "c", "l", ".", "e", "x", "e", " ", "/", "c", " ", "/", "O", "x", " ", "m", "a", "i", "n", ".", "c", "p", "p" >>

\* the text  cl.exe /c /Ox /src/app/main.cpp
L_dir ==
    << "c", "l", ".", "e", "x", "e", " ", "/", "c", " ", "/", "O", "x", " ", "/", "s", "r", "c", "/", "a", "p", "p", "/", "m", "a", "i", "n", ".", "c", "p", "p" >>

\* the text  CL.EXE /c "util.cpp"
L_quoted ==
    << "C", "L", ".", "E", "X", "E", " ", "/", "c", " ", "\"", "u", "t", "i", "l", ".", "c", "p", "p", "\"" >>

\* the text  link.exe main.obj
L_link ==
    << "l", "i", "n", "k", ".", "e", "x", "e", " ", "m", "a", "i", "n", ".", "o", "b", "j" >>

\* the text  cl.exe /c noext
L_noext ==
    << "c", "l", ".", "e", "x", "e", " ", "/", "c", " ", "n", "o", "e", "x", "t" >>

\* the text  cl.exe /c /src/app/main.
L_dotend ==
    << "c", "l", ".", "e", "x", "e", " ", "/", "c", " ", "/", "s", "r", "c", "/", "a", "p", "p", "/", "m", "a", "i", "n", "." >>

\* the text  cl.exe /c ..
L_nofile ==
    << "c", "l", ".", "e", "x", "e", " ", "/", "c", " ", ".", "." >>

File(n) == [name |-> n, kind |-> "file"]

Dir(n) == [name |-> n, kind |-> "dir"]

\* an entry that is neither a directory nor a regular file (a dangling link)
Other(n) == [name |-> n, kind |-> "other"]

\* a directory entry whose read fails (the iterator yields Err)
BadEntry == [name |-> << >>, kind |-> "err"]

ReadableDir(entries) == [ok |-> TRUE, entries |-> entries]

\* a directory on which read_dir fails
UnreadableDir(entries) == [ok |-> FALSE, entries |-> entries]

\* one main.cpp, one util.cpp, an extensionless file at the root
TreeUnique ==
    (S_src :> ReadableDir({Dir(S_app), Dir(S_lib), File(S_README)}))
    @@ (S_src_app :> ReadableDir({File(S_main_cpp)}))
    @@ (S_src_lib :> ReadableDir({File(S_util_cpp)}))

\* main.cpp twice
TreeDup ==
    (S_src :> ReadableDir({Dir(S_app), Dir(S_lib)}))
    @@ (S_src_app :> ReadableDir({File(S_main_cpp), File(S_util_cpp)}))
    @@ (S_src_lib :> ReadableDir({File(S_main_cpp)}))

\* main.cpp three times, once directly under the root, beside a single
\* util.cpp and an extensionless file
TreeTriple ==
    (S_src :> ReadableDir({Dir(S_app), Dir(S_lib), File(S_main_cpp)}))
    @@ (S_src_app :> ReadableDir({File(S_main_cpp), File(S_README)}))
    @@ (S_src_lib :> ReadableDir({File(S_main_cpp), File(S_util_cpp)}))

\* main.cpp twice on disk, one of them in a directory that cannot be read
TreeUnreadable ==
    (S_src :> ReadableDir({Dir(S_app), Dir(S_lib), BadEntry, Other(S_README)}))
    @@ (S_src_app :> ReadableDir({File(S_main_cpp)}))
    @@ (S_src_lib :> UnreadableDir({File(S_main_cpp)}))

Trees == {TreeUnique, TreeDup, TreeTriple, TreeUnreadable}

Line(text) == [ok |-> TRUE, text |-> text]

\* a line whose read fails (reader.lines() yields Err)
ReadError == [ok |-> FALSE, text |-> << >>]

MasterLog ==
    << Line(L_bare), Line(L_quoted), Line(L_link), ReadError,
       Line(L_dir), Line(L_noext), Line(L_dotend), Line(L_nofile) >>

\* the logs of the model: the runs of at most MaxLog consecutive items of MasterLog
Logs ==
    { SubSeq(MasterLog, w[1], w[1] + w[2] - 1) :
        w \in { v \in (1..Len(MasterLog)) \X (0..MaxLog) : v[1] + v[2] - 1 <= Len(MasterLog) } }

\* what the operating system answers to main's three set-up calls
Envs == [input_opens : BOOLEAN, root_is_dir : BOOLEAN, output_opens : BOOLEAN]

(***************************************************************************)
(* State.                                                                  *)
(***************************************************************************)
VARIABLES
    fs,                \* the source tree on disk: directory path -> its listing
    log,               \* the input log: the items reader.lines() yields
    env,               \* the outcome of main's set-up calls
    cli,               \* the parsed command line
    pc,                \* where the main thread is
    thr,               \* each spawned thread: unspawned, running, returned, panicked
    chan,              \* each mpsc channel: its queue and whether a Sender is alive
    stack,             \* find_all_files: the directories still to visit
    reader,            \* find_all_files: the directory being listed, entries left
    tree,              \* build_file_map's HashMap, later the Synthesizer's map
    next_line,         \* find_all_lines: how many log items have been read
    compile_commands,  \* main's collected Vec<CompileCommand>
    output_file,       \* the output artifact
    stderr,            \* what error_handler has printed
    sent,              \* history: the paths find_all_files sent on entry_tx
    filter_hist,       \* history: each line find_all_lines read, and whether it sent it
    synth_hist         \* history: each token list the Synthesizer received, and its outcome

vars ==
    << fs, log, env, cli, pc, thr, chan, stack, reader, tree, next_line,
       compile_commands, output_file, stderr, sent, filter_hist, synth_hist >>

Threads ==
    { "error_handler", "build_file_map", "find_all_lines", "cleanup_line",
      "tokenize_lines", "create_compile_commands" }

Channels == { "entry", "error", "source", "preprocess", "token", "compile_command" }

\* channel(): an empty queue with one live Sender
NewChannel == [q |-> << >>, tx |-> TRUE]

\* a channel that does not exist (yet)
NoChannel == [q |-> << >>, tx |-> FALSE]

\* Send onto the head of the queue: a channel that delivers the newest first
Send_Lifo(ch, c, ms) == [ch EXCEPT ![c].q = ms \o @]

\* Sender::send of each element of ms, in order; sends never block
Send(ch, c, ms) == [ch EXCEPT ![c].q = @ \o ms]

\* the value Receiver::recv returns when the queue is not empty
Peek(ch, c) == Head(ch[c].q)

Pop(ch, c) == [ch EXCEPT ![c].q = Tail(@)]

\* DropSender with the Sender kept alive (leaked past the thread's end)
DropSender_Leaked(ch, c) == ch

\* dropping the channel's Sender
DropSender(ch, c) == [ch EXCEPT ![c].tx = FALSE]

\* recv() returns Ok: a message is queued
CanRecv(c) == chan[c].q # << >>

\* recv() returns Err: the queue is empty and every Sender is dropped
Disconnected(c) == chan[c].q = << >> /\ ~chan[c].tx

NoReader == [path |-> << >>, entries |-> {}]

Init ==
    /\ fs \in Trees
    /\ log \in Logs
    /\ env \in Envs
    /\ cli = [source_directory |-> S_src, compiler_executable |-> S_cl_exe]
    /\ pc = "open_input"
    /\ thr = [t \in Threads |-> "unspawned"]
    /\ chan = [c \in Channels |-> NoChannel]
    /\ stack = << >>
    /\ reader = NoReader
    /\ tree = EmptyMap
    /\ next_line = 0
    /\ compile_commands = << >>
    /\ output_file = [state |-> "previous", records |-> << >>]
    /\ stderr = << >>
    /\ sent = {}
    /\ filter_hist = << >>
    /\ synth_hist = << >>

(***************************************************************************)
(* main: set-up (lines 209-230).                                           *)
(***************************************************************************)
\* main_open_input with the output file opened (created, truncated) before
\* the input log is
main_open_input_TruncatesFirst ==
    /\ pc = "open_input"
    /\ output_file' = [state |-> "truncated", records |-> << >>]
    /\ pc' = IF env.input_opens THEN "ensure_dir" ELSE "failed"
    /\ UNCHANGED << fs, log, env, cli, thr, chan, stack, reader, tree, next_line,
                    compile_commands, stderr, sent, filter_hist, synth_hist >>

\* File::open(&cli.input_file)?
main_open_input ==
    /\ pc = "open_input"
    /\ pc' = IF env.input_opens THEN "ensure_dir" ELSE "failed"
    /\ UNCHANGED << fs, log, env, cli, thr, chan, stack, reader, tree, next_line,
                    compile_commands, output_file, stderr, sent, filter_hist, synth_hist >>

main_ensure_dir ==
    /\ pc = "ensure_dir"
    /\ pc' = IF env.root_is_dir THEN "open_output" ELSE "failed"
    /\ UNCHANGED << fs, log, env, cli, thr, chan, stack, reader, tree, next_line,
                    compile_commands, output_file, stderr, sent, filter_hist, synth_hist >>

main_open_output ==
    /\ pc = "open_output"
    /\ IF env.output_opens
       THEN /\ pc' = "scope1"
            /\ output_file' = [state |-> "truncated", records |-> << >>]
       ELSE /\ pc' = "failed"
            /\ UNCHANGED output_file
    /\ UNCHANGED << fs, log, env, cli, thr, chan, stack, reader, tree, next_line,
                    compile_commands, stderr, sent, filter_hist, synth_hist >>

(***************************************************************************)
(* Phase 1 (lines 235-258): traversal on the main thread, index builder    *)
(* and error handler on threads of the scope.                              *)
(***************************************************************************)
main_scope1 ==
    /\ pc = "scope1"
    /\ chan' = [chan EXCEPT !["entry"] = NewChannel, !["error"] = NewChannel]
    /\ thr' = [thr EXCEPT !["error_handler"] = "running", !["build_file_map"] = "running"]
    /\ stack' = << cli.source_directory >>
    /\ pc' = "walk"
    /\ UNCHANGED << fs, log, env, cli, reader, tree, next_line,
                    compile_commands, output_file, stderr, sent, filter_hist, synth_hist >>

\* find_all_files_pop with a failed read_dir ending the walk: the directories
\* still on the stack are given up
find_all_files_pop_Abort ==
    /\ pc = "walk"
    /\ reader.entries = {}
    /\ stack # << >>
    /\ LET path == Last(stack)
       IN IF fs[path].ok
          THEN /\ stack' = Front(stack)
               /\ reader' = [path |-> path, entries |-> fs[path].entries]
               /\ UNCHANGED chan
          ELSE /\ stack' = << >>
               /\ reader' = NoReader
               /\ chan' = Send(chan, "error", << Diagnostic(MsgReadDir, << path >>) >>)
    /\ UNCHANGED << fs, log, env, cli, pc, thr, tree, next_line,
                    compile_commands, output_file, stderr, sent, filter_hist, synth_hist >>

\* while let Some(path) = stack.pop(): read_dir(&path)
find_all_files_pop ==
    /\ pc = "walk"
    /\ reader.entries = {}
    /\ stack # << >>
    /\ LET path == Last(stack)
       IN /\ stack' = Front(stack)
          /\ IF fs[path].ok
             THEN /\ reader' = [path |-> path, entries |-> fs[path].entries]
                  /\ UNCHANGED chan
             ELSE /\ reader' = NoReader
                  /\ chan' = Send(chan, "error", << Diagnostic(MsgReadDir, << path >>) >>)
    /\ UNCHANGED << fs, log, env, cli, pc, thr, tree, next_line,
                    compile_commands, output_file, stderr, sent, filter_hist, synth_hist >>

\* for entry in reader: the file system lists a directory in any order
find_all_files_entry ==
    /\ pc = "walk"
    /\ \E e \in reader.entries :
         LET path == Join(reader.path, e.name)
         IN /\ reader' = [reader EXCEPT !.entries = @ \ {e}]
            /\ stack' = IF e.kind = "dir" THEN Append(stack, path) ELSE stack
            /\ chan' = CASE e.kind = "err" ->
                              Send(chan, "error", << Diagnostic(MsgReadEntry, << reader.path >>) >>)
                         [] e.kind = "file" -> Send(chan, "entry", << path >>)
                         [] OTHER -> chan
            /\ sent' = IF e.kind = "file" THEN sent \cup {path} ELSE sent
    /\ UNCHANGED << fs, log, env, cli, pc, thr, tree, next_line,
                    compile_commands, output_file, stderr, filter_hist, synth_hist >>

\* the stack is empty: find_all_files returns and its two Senders are dropped
find_all_files_return ==
    /\ pc = "walk"
    /\ reader.entries = {}
    /\ stack = << >>
    /\ chan' = DropSender(DropSender(chan, "entry"), "error")
    /\ reader' = NoReader
    /\ pc' = "join"
    /\ UNCHANGED << fs, log, env, cli, thr, stack, tree, next_line,
                    compile_commands, output_file, stderr, sent, filter_hist, synth_hist >>

\* one iteration of build_file_map's loop; a panic ends the thread
build_file_map_recv ==
    /\ thr["build_file_map"] = "running"
    /\ CanRecv("entry")
    /\ IF IndexPanics(Peek(chan, "entry"))
       THEN /\ thr' = [thr EXCEPT !["build_file_map"] = "panicked"]
            /\ UNCHANGED tree
       ELSE /\ tree' = IndexFile(tree, Peek(chan, "entry"))
            /\ UNCHANGED thr
    /\ chan' = Pop(chan, "entry")
    /\ UNCHANGED << fs, log, env, cli, pc, stack, reader, next_line,
                    compile_commands, output_file, stderr, sent, filter_hist, synth_hist >>

build_file_map_return ==
    /\ thr["build_file_map"] = "running"
    /\ Disconnected("entry")
    /\ thr' = [thr EXCEPT !["build_file_map"] = "returned"]
    /\ UNCHANGED << fs, log, env, cli, pc, chan, stack, reader, tree, next_line,
                    compile_commands, output_file, stderr, sent, filter_hist, synth_hist >>

\* error_handler_recv with the received diagnostic discarded, not printed
error_handler_recv_Discards ==
    /\ thr["error_handler"] = "running"
    /\ CanRecv("error")
    /\ chan' = Pop(chan, "error")
    /\ UNCHANGED << fs, log, env, cli, pc, thr, stack, reader, tree, next_line,
                    compile_commands, output_file, stderr, sent, filter_hist, synth_hist >>

\* while let Ok(e) = error_rx.recv() { eprintln!("{e}") }: one received diagnostic
error_handler_recv ==
    /\ thr["error_handler"] = "running"
    /\ CanRecv("error")
    /\ stderr' = Append(stderr, Peek(chan, "error"))
    /\ chan' = Pop(chan, "error")
    /\ UNCHANGED << fs, log, env, cli, pc, thr, stack, reader, tree, next_line,
                    compile_commands, output_file, sent, filter_hist, synth_hist >>

error_handler_return ==
    /\ thr["error_handler"] = "running"
    /\ Disconnected("error")
    /\ thr' = [thr EXCEPT !["error_handler"] = "returned"]
    /\ UNCHANGED << fs, log, env, cli, pc, chan, stack, reader, tree, next_line,
                    compile_commands, output_file, stderr, sent, filter_hist, synth_hist >>

\* Joined without the wait: a join that returns at once
Joined_NoWait(t) == TRUE

\* a join of thread t, explicit (h.join()) or the scope's own at its end,
\* returns only when the thread has finished
Joined(t) == thr[t] \in {"returned", "panicked"}

Phase1Threads == {"error_handler", "build_file_map"}

\* h.join().unwrap(): main blocks until the index builder thread has
\* finished, takes the map it returned, and panics if the thread did
main_join ==
    /\ pc = "join"
    /\ Joined("build_file_map")
    /\ pc' = IF thr["build_file_map"] = "panicked" THEN "panicked" ELSE "scope1_end"
    /\ UNCHANGED << fs, log, env, cli, thr, chan, stack, reader, tree, next_line,
                    compile_commands, output_file, stderr, sent, filter_hist, synth_hist >>

\* thread::scope returns only when every thread spawned in it has finished
main_scope1_end ==
    /\ pc = "scope1_end"
    /\ \A t \in Phase1Threads : Joined(t)
    /\ pc' = "scope2"
    /\ UNCHANGED << fs, log, env, cli, thr, chan, stack, reader, tree, next_line,
                    compile_commands, output_file, stderr, sent, filter_hist, synth_hist >>

(***************************************************************************)
(* Phase 2 (lines 265-321): four streaming stages and the error handler    *)
(* on threads of the scope, the collector and the Writer on the main       *)
(* thread.                                                                 *)
(***************************************************************************)
Phase2Threads ==
    { "error_handler", "find_all_lines", "cleanup_line", "tokenize_lines",
      "create_compile_commands" }

main_scope2 ==
    /\ pc = "scope2"
    /\ chan' = [c \in Channels |-> IF c = "entry" THEN chan[c] ELSE NewChannel]
    /\ thr' = [t \in Threads |-> IF t \in Phase2Threads THEN "running" ELSE thr[t]]
    /\ pc' = "collect"
    /\ UNCHANGED << fs, log, env, cli, stack, reader, tree, next_line,
                    compile_commands, output_file, stderr, sent, filter_hist, synth_hist >>

\* reader.lines().map_while(Result::ok).for_each(..): one line that was read
find_all_lines_line ==
    /\ thr["find_all_lines"] = "running"
    /\ next_line < Len(log)
    /\ log[next_line + 1].ok
    /\ LET line == log[next_line + 1].text
           forward == LineMatches(line, cli.compiler_executable)
       IN /\ chan' = IF forward THEN Send(chan, "source", << line >>) ELSE chan
          /\ filter_hist' = Append(filter_hist, [line |-> line, forwarded |-> forward])
    /\ next_line' = next_line + 1
    /\ UNCHANGED << fs, log, env, cli, pc, thr, stack, reader, tree,
                    compile_commands, output_file, stderr, sent, synth_hist >>

\* the iteration ends at the end of the log or at the first line whose read
\* fails (map_while); find_all_lines returns and source_tx is dropped
find_all_lines_return ==
    /\ thr["find_all_lines"] = "running"
    /\ IF next_line = Len(log) THEN TRUE ELSE ~log[next_line + 1].ok
    /\ thr' = [thr EXCEPT !["find_all_lines"] = "returned"]
    /\ chan' = DropSender(chan, "source")
    /\ UNCHANGED << fs, log, env, cli, pc, stack, reader, tree, next_line,
                    compile_commands, output_file, stderr, sent, filter_hist, synth_hist >>

cleanup_line_recv ==
    /\ thr["cleanup_line"] = "running"
    /\ CanRecv("source")
    /\ chan' = Send(Pop(chan, "source"), "preprocess", << StripQuotes(Peek(chan, "source")) >>)
    /\ UNCHANGED << fs, log, env, cli, pc, thr, stack, reader, tree, next_line,
                    compile_commands, output_file, stderr, sent, filter_hist, synth_hist >>

cleanup_line_return ==
    /\ thr["cleanup_line"] = "running"
    /\ Disconnected("source")
    /\ thr' = [thr EXCEPT !["cleanup_line"] = "returned"]
    /\ chan' = DropSender(chan, "preprocess")
    /\ UNCHANGED << fs, log, env, cli, pc, stack, reader, tree, next_line,
                    compile_commands, output_file, stderr, sent, filter_hist, synth_hist >>

tokenize_lines_recv ==
    /\ thr["tokenize_lines"] = "running"
    /\ CanRecv("preprocess")
    /\ chan' = Send(Pop(chan, "preprocess"), "token",
                    << SplitWhitespace(Peek(chan, "preprocess")) >>)
    /\ UNCHANGED << fs, log, env, cli, pc, thr, stack, reader, tree, next_line,
                    compile_commands, output_file, stderr, sent, filter_hist, synth_hist >>

tokenize_lines_return ==
    /\ thr["tokenize_lines"] = "running"
    /\ Disconnected("preprocess")
    /\ thr' = [thr EXCEPT !["tokenize_lines"] = "returned"]
    /\ chan' = DropSender(chan, "token")
    /\ UNCHANGED << fs, log, env, cli, pc, stack, reader, tree, next_line,
                    compile_commands, output_file, stderr, sent, filter_hist, synth_hist >>

\* one iteration of the Synthesizer's loop; a panic ends the thread, which
\* drops its Senders as a return does
create_compile_commands_recv ==
    /\ thr["create_compile_commands"] = "running"
    /\ CanRecv("token")
    /\ \E t \in { Peek(chan, "token") } :
       \E out \in { Synthesize(tree, t) } :
          /\ synth_hist' = Append(synth_hist, [t |-> t, out |-> out])
          /\ IF out.panicked
             THEN /\ thr' = [thr EXCEPT !["create_compile_commands"] = "panicked"]
                  /\ chan' = DropSender(DropSender(Pop(chan, "token"), "compile_command"), "error")
             ELSE /\ chan' = Send(Send(Pop(chan, "token"), "compile_command", out.cc),
                                  "error", out.diag)
                  /\ UNCHANGED thr
    /\ UNCHANGED << fs, log, env, cli, pc, stack, reader, tree, next_line,
                    compile_commands, output_file, stderr, sent, filter_hist >>

create_compile_commands_return ==
    /\ thr["create_compile_commands"] = "running"
    /\ Disconnected("token")
    /\ thr' = [thr EXCEPT !["create_compile_commands"] = "returned"]
    /\ chan' = DropSender(DropSender(chan, "compile_command"), "error")
    /\ UNCHANGED << fs, log, env, cli, pc, stack, reader, tree, next_line,
                    compile_commands, output_file, stderr, sent, filter_hist, synth_hist >>

\* compile_command_rx.iter().collect(): one received record
main_collect_recv ==
    /\ pc = "collect"
    /\ CanRecv("compile_command")
    /\ compile_commands' = Append(compile_commands, Peek(chan, "compile_command"))
    /\ chan' = Pop(chan, "compile_command")
    /\ UNCHANGED << fs, log, env, cli, pc, thr, stack, reader, tree, next_line,
                    output_file, stderr, sent, filter_hist, synth_hist >>

\* main_write without the wait for the end of the stream: what has been
\* collected so far is written
main_write_Early ==
    /\ pc = "collect"
    /\ output_file' = [state |-> "written", records |-> compile_commands]
    /\ pc' = "scope2_end"
    /\ UNCHANGED << fs, log, env, cli, thr, chan, stack, reader, tree, next_line,
                    compile_commands, stderr, sent, filter_hist, synth_hist >>

\* the iterator ends when the channel is disconnected; the collection is
\* then written to the output file
main_write ==
    /\ pc = "collect"
    /\ Disconnected("compile_command")
    /\ output_file' = [state |-> "written", records |-> compile_commands]
    /\ pc' = "scope2_end"
    /\ UNCHANGED << fs, log, env, cli, thr, chan, stack, reader, tree, next_line,
                    compile_commands, stderr, sent, filter_hist, synth_hist >>

\* the scope ends when its threads have; a panicked thread makes it panic
main_scope2_end ==
    /\ pc = "scope2_end"
    /\ \A t \in Phase2Threads : Joined(t)
    /\ pc' = IF \E t \in Phase2Threads : thr[t] = "panicked" THEN "panicked" ELSE "done"
    /\ UNCHANGED << fs, log, env, cli, thr, chan, stack, reader, tree, next_line,
                    compile_commands, output_file, stderr, sent, filter_hist, synth_hist >>

Next ==
    \/ main_open_input
    \/ main_ensure_dir
    \/ main_open_output
    \/ main_scope1
    \/ find_all_files_pop
    \/ find_all_files_entry
    \/ find_all_files_return
    \/ build_file_map_recv
    \/ build_file_map_return
    \/ error_handler_recv
    \/ error_handler_return
    \/ main_join
    \/ main_scope1_end
    \/ main_scope2
    \/ find_all_lines_line
    \/ find_all_lines_return
    \/ cleanup_line_recv
    \/ cleanup_line_return
    \/ tokenize_lines_recv
    \/ tokenize_lines_return
    \/ create_compile_commands_recv
    \/ create_compile_commands_return
    \/ main_collect_recv
    \/ main_write
    \/ main_scope2_end

Spec == Init /\ [][Next]_vars

(***************************************************************************)
(* The same run under fair scheduling: every thread of the process (the    *)
(* main thread and each thread spawned in a scope) that can take a step    *)
(* eventually takes one.                                                   *)
(***************************************************************************)
main_thread ==
    \/ main_open_input
    \/ main_ensure_dir
    \/ main_open_output
    \/ main_scope1
    \/ find_all_files_pop
    \/ find_all_files_entry
    \/ find_all_files_return
    \/ main_join
    \/ main_scope1_end
    \/ main_scope2
    \/ main_collect_recv
    \/ main_write
    \/ main_scope2_end

error_handler_thread == error_handler_recv \/ error_handler_return

build_file_map_thread == build_file_map_recv \/ build_file_map_return

find_all_lines_thread == find_all_lines_line \/ find_all_lines_return

cleanup_line_thread == cleanup_line_recv \/ cleanup_line_return

tokenize_lines_thread == tokenize_lines_recv \/ tokenize_lines_return

create_compile_commands_thread ==
    create_compile_commands_recv \/ create_compile_commands_return

Fairness ==
    /\ WF_vars(main_thread)
    /\ WF_vars(error_handler_thread)
    /\ WF_vars(build_file_map_thread)
    /\ WF_vars(find_all_lines_thread)
    /\ WF_vars(cleanup_line_thread)
    /\ WF_vars(tokenize_lines_thread)
    /\ WF_vars(create_compile_commands_thread)

SpecFair == Init /\ [][Next]_vars /\ Fairness

(***************************************************************************)
(* The streaming stages on bounded inputs: the run is taken up where       *)
(* phase 1 has ended (main is about to enter the second scope), with a     *)
(* one-line log.  Two families of inputs are drawn:                        *)
(*  - every token of up to MaxTokLen path characters as the line's last    *)
(*    token, against every index a small tree gives (the configured name   *)
(*    is empty, so every line is forwarded);                               *)
(*  - every line of up to MaxLineLen letters of either case against        *)
(*    every short configured name of either case.                          *)
(***************************************************************************)
PathChars == {"a", ".", "/"}

\* every non-empty string of at most MaxTokLen path characters
Tokens == SeqsUpTo(PathChars, MaxTokLen) \ { << >> }

\* the empty line, blank lines, a lone token, a token after an argument,
\* with the quotes and the runs of whitespace the stages must remove
SynthLines ==
    { << >>, << " " >> }
    \cup Tokens
    \cup { << "a", " ", "\t" >> \o t : t \in Tokens }
    \cup { << Quote >> \o t \o << Quote, " " >> : t \in Tokens }

S_root == << "/" >>

S_a == << "a" >>

\* the files of the small tree: a.a at the root and in /a, a file with an
\* empty extension, and one with none
StageFiles ==
    { [dir |-> S_root, name |-> << "a", ".", "a" >>],
      [dir |-> << "/", "a" >>, name |-> << "a", ".", "a" >>],
      [dir |-> << "/", "a" >>, name |-> << "a", "." >>],
      [dir |-> S_root, name |-> << ".", "a" >>] }

\* the tree that holds the files fl: the root / and its subdirectory a
StageTree(fl) ==
    (S_root :> ReadableDir({Dir(S_a)} \cup { File(f.name) : f \in { g \in fl : g.dir = S_root } }))
    @@ (<< "/", "a" >> :> ReadableDir({ File(f.name) : f \in { g \in fl : g.dir # S_root } }))

\* the paths find_all_files sends for the files fl
StagePaths(fl) == { Join(f.dir, f.name) : f \in fl }

\* build_file_map's result for the paths ps, received in some order
RECURSIVE IndexAll(_)
IndexAll(ps) ==
    IF ps = {} THEN EmptyMap
    ELSE LET p == CHOOSE x \in ps : TRUE
         IN IndexFile(IndexAll(ps \ {p}), p)

LetterChars == {"c", "C", "x"}

\* every line of at most MaxLineLen letters
FilterLines == SeqsUpTo(LetterChars, MaxLineLen)

\* the configured names: one or two letters c, of either case
ExeNames == SeqsUpTo({"c", "C"}, 2) \ { << >> }

\* the state in which main enters the second scope, for a tree of the files
\* fl, a log of the one line and the configured name exe
StageInit(fl, line, exe) ==
    /\ fs = StageTree(fl)
    /\ log = << Line(line) >>
    /\ env = [input_opens |-> TRUE, root_is_dir |-> TRUE, output_opens |-> TRUE]
    /\ cli = [source_directory |-> S_root, compiler_executable |-> exe]
    /\ pc = "scope2"
    /\ thr = [t \in Threads |->
                IF t \in {"error_handler", "build_file_map"} THEN "returned" ELSE "unspawned"]
    /\ chan = [c \in Channels |-> NoChannel]
    /\ stack = << >>
    /\ reader = NoReader
    /\ tree = IndexAll(StagePaths(fl))
    /\ next_line = 0
    /\ compile_commands = << >>
    /\ output_file = [state |-> "truncated", records |-> << >>]
    /\ stderr = << >>
    /\ sent = StagePaths(fl)
    /\ filter_hist = << >>
    /\ synth_hist = << >>

InitStages ==
    \/ \E fl \in SUBSET StageFiles, line \in SynthLines : StageInit(fl, line, << >>)
    \/ \E line \in FilterLines, exe \in ExeNames : StageInit({}, line, exe)

NextStages ==
    \/ main_scope2
    \/ find_all_lines_line
    \/ find_all_lines_return
    \/ cleanup_line_recv
    \/ cleanup_line_return
    \/ tokenize_lines_recv
    \/ tokenize_lines_return
    \/ create_compile_commands_recv
    \/ create_compile_commands_return
    \/ error_handler_recv
    \/ error_handler_return
    \/ main_collect_recv
    \/ main_write
    \/ main_scope2_end

SpecStages == InitStages /\ [][NextStages]_vars

(***************************************************************************)
(* Phase 1 on generated source trees: the run from its start to the end    *)
(* of the first scope, for an empty log and every tree of at most          *)
(* MaxFiles files placed in /src, /src/app and /src/lib under the names    *)
(* main.cpp, main. (an empty extension) and README (no extension), with    *)
(* /src/lib readable or not.                                               *)
(***************************************************************************)
\* the text  main.
S_main_dot ==
    << "m", "a", "i", "n", "." >>

IndexDirs == {S_src, S_src_app, S_src_lib}

IndexFileNames == {S_main_cpp, S_main_dot, S_README}

FileSlots == [dir : IndexDirs, name : IndexFileNames]

FilesIn(fl, d) == { File(f.name) : f \in { g \in fl : g.dir = d } }

\* the tree that holds the files fl
GeneratedTree(fl, lib_ok) ==
    (S_src :> ReadableDir({Dir(S_app), Dir(S_lib)} \cup FilesIn(fl, S_src)))
    @@ (S_src_app :> ReadableDir(FilesIn(fl, S_src_app)))
    @@ (S_src_lib :> [ok |-> lib_ok, entries |-> FilesIn(fl, S_src_lib)])

GeneratedTrees ==
    { GeneratedTree(fl, lib_ok) :
        fl \in { x \in SUBSET FileSlots : Cardinality(x) <= MaxFiles }, lib_ok \in BOOLEAN }

InitIndex ==
    /\ fs \in GeneratedTrees
    /\ log = << >>
    /\ env = [input_opens |-> TRUE, root_is_dir |-> TRUE, output_opens |-> TRUE]
    /\ cli = [source_directory |-> S_src, compiler_executable |-> S_cl_exe]
    /\ pc = "open_input"
    /\ thr = [t \in Threads |-> "unspawned"]
    /\ chan = [c \in Channels |-> NoChannel]
    /\ stack = << >>
    /\ reader = NoReader
    /\ tree = EmptyMap
    /\ next_line = 0
    /\ compile_commands = << >>
    /\ output_file = [state |-> "previous", records |-> << >>]
    /\ stderr = << >>
    /\ sent = {}
    /\ filter_hist = << >>
    /\ synth_hist = << >>

NextIndex ==
    \/ main_open_input
    \/ main_ensure_dir
    \/ main_open_output
    \/ main_scope1
    \/ find_all_files_pop
    \/ find_all_files_entry
    \/ find_all_files_return
    \/ build_file_map_recv
    \/ build_file_map_return
    \/ error_handler_recv
    \/ error_handler_return
    \/ main_join
    \/ main_scope1_end

SpecIndex == InitIndex /\ [][NextIndex]_vars

(***************************************************************************)
(* Vocabulary of the properties.                                           *)
(***************************************************************************)
Range(q) == { q[i] : i \in 1..Len(q) }

\* the iterations the Synthesizer has run so far
SynthRuns == Range(synth_hist)

\* every record the Synthesizer's output has reached: in flight, collected, written
EmittedRecords ==
    Range(chan["compile_command"].q) \cup Range(compile_commands) \cup Range(output_file.records)

\* how many of the files the traversal delivered are named n
ObservedCount(n) == Cardinality({ p \in sent : FileName(p) = Some(n) })

ObservedNames == { Unwrap(FileName(p)) : p \in sent }

\* the index builder has returned the map
IndexComplete == thr["build_file_map"] = "returned"

\* the token list passes the Synthesizer's three validations
PassesValidation(t) ==
    /\ Len(t) > 0
    /\ IsSome(FileName(Last(t)))
    /\ IsSome(Extension(Last(t)))

\* the last token is a bare file name: its parent component is the empty path
IsBare(t) == PassesValidation(t) /\ Parent(Last(t)) = Some(<< >>)

\* the last token carries a directory component
HasDirectory(t) == PassesValidation(t) /\ Parent(Last(t)) # Some(<< >>)

SynthDiagCount == Cardinality({ i \in 1..Len(synth_hist) : synth_hist[i].out.diag # << >> })

ForwardedCount == Cardinality({ i \in 1..Len(filter_hist) : filter_hist[i].forwarded })

(***************************************************************************)
(* C1.  A log line whose last token is a bare file name that two or more   *)
(* indexed files share yields no CompileCommand and exactly one            *)
(* diagnostic.  The code does otherwise: the cleared entry is still found  *)
(* by map.get and a record with the empty directory is emitted.            *)
(***************************************************************************)
C1_AmbiguousNameRejected ==
    \A h \in SynthRuns :
        (IsBare(h.t) /\ ObservedCount(Unwrap(FileName(Last(h.t)))) >= 2)
            => (h.out.cc = << >> /\ Len(h.out.diag) = 1)

(***************************************************************************)
(* C2.  Every emitted CompileCommand, in flight, collected or written, has *)
(* a non-empty directory.  The code emits the empty directory for an       *)
(* ambiguous name (the bug of C1).                                         *)
(***************************************************************************)
C2_DirectoryNeverEmpty == \A r \in EmittedRecords : r.directory # << >>

(***************************************************************************)
(* C3.  Each token list the Synthesizer receives yields exactly one of a   *)
(* CompileCommand and a diagnostic, and when the run is done the records   *)
(* written plus the Synthesizer's diagnostics number the lines the         *)
(* LineFilter forwarded.                                                   *)
(***************************************************************************)
C3_ExactlyOneOutput ==
    /\ \A h \in SynthRuns : Len(h.out.cc) + Len(h.out.diag) = 1
    /\ pc = "done" =>
         /\ Len(compile_commands) + SynthDiagCount = ForwardedCount
         /\ output_file.records = compile_commands

\* a finished run that produced both a record and a diagnostic
C3_Witness ==
    /\ pc = "done"
    /\ Len(compile_commands) >= 1
    /\ SynthDiagCount >= 1

(***************************************************************************)
(* C4, as claimed.  When indexing completes, for every file name N the     *)
(* index maps N to a directory iff exactly one file named N was observed   *)
(* (and then to its parent), and N is marked ambiguous when two or more    *)
(* were.  Fails for a name without an extension, which is never entered.   *)
(***************************************************************************)
IndexAgreesWithObservations(names) ==
    \A n \in names :
        /\ (n \in DOMAIN tree /\ tree[n] # << >>) <=> ObservedCount(n) = 1
        /\ ObservedCount(n) = 1 =>
             \A p \in sent : FileName(p) = Some(n) => Some(tree[n]) = Parent(p)
        /\ ObservedCount(n) >= 2 => (n \in DOMAIN tree /\ tree[n] = << >>)

C4_IndexIffObservedOnce ==
    IndexComplete => IndexAgreesWithObservations(ObservedNames \cup DOMAIN tree)

(***************************************************************************)
(* C4, amended.  The same, for every file name N that has an extension     *)
(* (Path::extension is Some); a name without one is never in the index.    *)
(***************************************************************************)
C4_IndexIffObservedOnceWithExtension ==
    IndexComplete =>
        /\ IndexAgreesWithObservations(
               { n \in ObservedNames \cup DOMAIN tree : IsSome(Extension(n)) })
        /\ \A n \in DOMAIN tree : IsSome(Extension(n))

\* the index is complete and holds a name seen once, with its directory,
\* and a name seen three times, marked ambiguous
C4_Witness ==
    /\ IndexComplete
    /\ \E n \in DOMAIN tree : ObservedCount(n) = 1 /\ tree[n] # << >>
    /\ \E n \in DOMAIN tree : ObservedCount(n) >= 3 /\ tree[n] = << >>

(***************************************************************************)
(* C5.  Two-phase barrier: while any streaming stage has been started, or  *)
(* the Synthesizer has run, the traversal is over, the index builder has   *)
(* consumed every delivered file and returned, the map is the index of     *)
(* all the delivered files, and every outcome of the Synthesizer is the    *)
(* one that complete index gives.                                          *)
(***************************************************************************)
StageThreads == Phase2Threads \ {"error_handler"}

Phase2Started == \E t \in StageThreads : thr[t] # "unspawned"

C5_TwoPhaseBarrier ==
    (Phase2Started \/ synth_hist # << >>) =>
        /\ pc \in {"collect", "scope2_end", "done", "panicked"}
        /\ stack = << >>
        /\ reader.entries = {}
        /\ chan["entry"].q = << >>
        /\ ~chan["entry"].tx
        /\ IndexComplete
        /\ tree = IndexAll(sent)
        /\ \A h \in SynthRuns : h.out = Synthesize(IndexAll(sent), h.t)

\* the Synthesizer has looked a name up in a non-empty index
C5_Witness ==
    /\ DOMAIN tree # {}
    /\ \E h \in SynthRuns : h.out.consulted

(***************************************************************************)
(* C6.  The LineFilter forwards a line iff the line contains the           *)
(* configured name under case-insensitive comparison, whatever the letter  *)
(* case of either.  The code folds the case of the line only, so a         *)
(* configured name with a capital letter matches no line.                  *)
(***************************************************************************)
C6_FilterCaseInsensitive ==
    \A h \in Range(filter_hist) :
        h.forwarded <=> Contains(ToLowercase(h.line), ToLowercase(cli.compiler_executable))

(***************************************************************************)
(* C7.  For a token list that passes validation and whose last token has   *)
(* a non-empty parent component, the record's directory is that parent,    *)
(* no diagnostic is sent and the index is not consulted, whatever the      *)
(* index holds.                                                            *)
(***************************************************************************)
C7_EmbeddedDirectoryUsed ==
    \A h \in SynthRuns :
        HasDirectory(h.t) =>
            /\ Len(h.out.cc) = 1
            /\ h.out.cc[1].directory = Unwrap(Parent(Last(h.t)))
            /\ h.out.diag = << >>
            /\ ~h.out.consulted

\* a record took its directory from the token though the index holds the
\* file name, as an ambiguous entry
C7_Witness ==
    \E h \in SynthRuns :
        /\ HasDirectory(h.t)
        /\ h.out.cc # << >>
        /\ Unwrap(FileName(Last(h.t))) \in DOMAIN tree
        /\ tree[Unwrap(FileName(Last(h.t)))] = << >>

(***************************************************************************)
(* C8.  Validation is fail-fast in the order empty token list, no file     *)
(* name, no extension: the one diagnostic sent is that of the first        *)
(* failing check, no record is produced and the index is not consulted.    *)
(***************************************************************************)
RejectedWith(h, msg) ==
    /\ h.out.cc = << >>
    /\ Len(h.out.diag) = 1
    /\ h.out.diag[1].msg = msg
    /\ ~h.out.consulted

C8_ValidationOrder ==
    \A h \in SynthRuns :
        /\ Len(h.t) = 0 => RejectedWith(h, MsgEmpty)
        /\ (Len(h.t) > 0 /\ ~IsSome(FileName(Last(h.t)))) => RejectedWith(h, MsgNoFileName)
        /\ (Len(h.t) > 0 /\ IsSome(FileName(Last(h.t))) /\ ~IsSome(Extension(Last(h.t))))
             => RejectedWith(h, MsgNoExtension)

\* a last token that fails both the file-name and the extension check was
\* rejected for its file name
C8_Witness ==
    \E h \in SynthRuns :
        /\ Len(h.t) > 0
        /\ ~IsSome(FileName(Last(h.t)))
        /\ ~IsSome(Extension(Last(h.t)))
        /\ RejectedWith(h, MsgNoFileName)

(***************************************************************************)
(* C9.  A record is produced only for a last token with a non-empty        *)
(* extension; a missing or empty extension gives no record and exactly     *)
(* one diagnostic; only files with a non-empty extension enter the index.  *)
(* The code tests only that an extension is present: a name that ends in   *)
(* a dot has the empty extension and is accepted.                          *)
(***************************************************************************)
HasNonEmptyExtension(p) == IsSome(Extension(p)) /\ Unwrap(Extension(p)) # << >>

C9_NonEmptyExtensionRequired ==
    /\ \A h \in SynthRuns :
         (Len(h.t) > 0 /\ ~HasNonEmptyExtension(Last(h.t)))
            => (h.out.cc = << >> /\ Len(h.out.diag) = 1)
    /\ \A n \in DOMAIN tree : HasNonEmptyExtension(n)

(***************************************************************************)
(* C10.  Every emitted record comes from one token list the Synthesizer    *)
(* received: file is the final path component of its last token, the       *)
(* arguments are that token list unchanged, and for a bare last token      *)
(* whose name exactly one delivered file bears the directory is that       *)
(* file's parent.  The token list received is the whitespace split of the  *)
(* quote-stripped line, in the order the lines were forwarded.             *)
(***************************************************************************)
ForwardedLines == SelectSeq(filter_hist, LAMBDA f : f.forwarded)

C10_RecordFields ==
    /\ \A h \in SynthRuns :
         h.out.cc # << >> =>
            LET r == h.out.cc[1]
            IN /\ r.file = Unwrap(FileName(Last(h.t)))
               /\ r.arguments = h.t
               /\ (IsBare(h.t) /\ ObservedCount(r.file) = 1) =>
                    \A p \in sent : FileName(p) = Some(r.file) => Some(r.directory) = Parent(p)
    /\ \A r \in EmittedRecords : \E h \in SynthRuns : h.out.cc = << r >>
    /\ \A i \in 1..Len(synth_hist) :
         /\ i <= Len(ForwardedLines)
         /\ synth_hist[i].t = SplitWhitespace(StripQuotes(ForwardedLines[i].line))

\* a written record of two or more arguments whose directory came from the
\* index entry of the one file of that name
C10_Witness ==
    \E r \in Range(output_file.records) :
        /\ IsBare(r.arguments)
        /\ ObservedCount(r.file) = 1
        /\ Len(r.arguments) >= 2
        /\ r.directory # << >>

(***************************************************************************)
(* C11.  Under fair scheduling both phases terminate: a run that enters    *)
(* the first scope reaches the second, and a run that enters the second    *)
(* scope finishes with every thread returned.  Shutdown goes downstream:   *)
(* a stage has ended only if the stage before it has, and an ended stage   *)
(* has dropped its own Senders; the error handler of a phase has ended     *)
(* only if the diagnostic producer of that phase has.                      *)
(***************************************************************************)
InPhase1 == pc \in {"walk", "join", "scope1_end"}

InPhase2 == pc \in {"collect", "scope2_end", "done"}

Ended(t) == thr[t] \in {"returned", "panicked"}

ShutdownOrder ==
    /\ InPhase1 =>
         /\ Ended("build_file_map") => (pc # "walk" /\ ~chan["entry"].tx)
         /\ Ended("error_handler") => (pc # "walk" /\ ~chan["error"].tx)
    /\ InPhase2 =>
         /\ Ended("find_all_lines") => ~chan["source"].tx
         /\ Ended("cleanup_line") => (Ended("find_all_lines") /\ ~chan["preprocess"].tx)
         /\ Ended("tokenize_lines") => (Ended("cleanup_line") /\ ~chan["token"].tx)
         /\ Ended("create_compile_commands") =>
              /\ Ended("tokenize_lines")
              /\ ~chan["compile_command"].tx
              /\ ~chan["error"].tx
         /\ Ended("error_handler") => Ended("create_compile_commands")
         /\ pc # "collect" => Ended("create_compile_commands")
         /\ pc = "done" => \A t \in Threads : thr[t] = "returned"

C11_Termination ==
    /\ [] ShutdownOrder
    /\ (pc = "scope1") ~> (pc = "scope2")
    /\ (pc = "scope2") ~> (pc = "done")

\* a finished run in which a line went through every stage and a diagnostic
\* was reported
C11_Witness ==
    /\ pc = "done"
    /\ \A t \in Threads : thr[t] = "returned"
    /\ synth_hist # << >>
    /\ stderr # << >>

(***************************************************************************)
(* What the inputs alone determine: the directories the traversal visits,  *)
(* the files it finds, the diagnostics it owes, the lines that can be      *)
(* read, and the records these give.                                       *)
(***************************************************************************)
SubDirs(f, d) ==
    IF f[d].ok THEN { Join(d, e.name) : e \in { x \in f[d].entries : x.kind = "dir" } } ELSE {}

\* the directories reached from root through readable directories, in at most k steps
RECURSIVE VisitedDirs(_, _, _)
VisitedDirs(f, root, k) ==
    IF k = 0 THEN {root}
    ELSE LET ds == VisitedDirs(f, root, k - 1)
         IN ds \cup UNION { SubDirs(f, d) : d \in ds }

AllVisitedDirs(f, root) == VisitedDirs(f, root, Cardinality(DOMAIN f))

\* the files located in a readable directory reachable through readable directories
ReachableFiles(f, root) ==
    UNION { { Join(d, e.name) : e \in { x \in f[d].entries : x.kind = "file" } } :
              d \in { x \in AllVisitedDirs(f, root) : f[x].ok } }

\* the read failures the traversal meets: one per unreadable directory
\* visited, one per unreadable entry of a readable directory visited
ReadFailures(f, root) ==
    { << "dir", d >> : d \in { x \in AllVisitedDirs(f, root) : ~f[x].ok } }
    \cup UNION { { << "entry", d, e >> : e \in { x \in f[d].entries : x.kind = "err" } } :
                   d \in { x \in AllVisitedDirs(f, root) : f[x].ok } }

\* the records of the lines of lg up to its first unreadable line, in order
RECURSIVE RecordsOf(_, _, _)
RecordsOf(map, lg, exe) ==
    IF lg = << >> THEN << >>
    ELSE IF ~Head(lg).ok THEN << >>
    ELSE (IF LineMatches(Head(lg).text, exe)
          THEN Synthesize(map, SplitWhitespace(StripQuotes(Head(lg).text))).cc
          ELSE << >>)
         \o RecordsOf(map, Tail(lg), exe)

ExpectedRecords ==
    RecordsOf(IndexAll(ReachableFiles(fs, cli.source_directory)), log, cli.compiler_executable)

(***************************************************************************)
(* C12.  Determinism: the written collection is a function of the inputs   *)
(* (log, tree, configured name) alone, so two runs on the same inputs      *)
(* write set-equal collections, whatever the interleaving of the threads   *)
(* and the order in which directories are listed.                          *)
(***************************************************************************)
C12_Deterministic ==
    pc = "done" => Range(output_file.records) = Range(ExpectedRecords)

\* a finished run whose output holds a record resolved through the index of
\* a tree where the name is borne by two files, listed in either order
C12_Witness ==
    /\ pc = "done"
    /\ \E r \in Range(output_file.records) :
         IsBare(r.arguments) /\ ObservedCount(r.file) >= 2

(***************************************************************************)
(* C13.  A read failure on a directory or on an entry costs exactly one    *)
(* diagnostic and nothing else: when the walk has returned, every file of  *)
(* a readable directory reachable through readable directories has been    *)
(* delivered, one diagnostic naming the directory has been sent per        *)
(* failure, and none besides.  The walk is never stuck: while it runs one  *)
(* of its steps can be taken.                                              *)
(***************************************************************************)
WalkReturned == pc \in {"join", "scope1_end", "scope2"}

\* the diagnostics of the phase: reported, or still queued
PhaseDiagnostics == stderr \o chan["error"].q

CountOf(q, x) == Cardinality({ i \in 1..Len(q) : q[i] = x })

C13_WalkSurvivesReadFailures ==
    /\ WalkReturned =>
         /\ sent = ReachableFiles(fs, cli.source_directory)
         /\ Len(PhaseDiagnostics) = Cardinality(ReadFailures(fs, cli.source_directory))
         /\ \A d \in AllVisitedDirs(fs, cli.source_directory) :
              /\ CountOf(PhaseDiagnostics, Diagnostic(MsgReadDir, << d >>))
                   = IF fs[d].ok THEN 0 ELSE 1
              /\ CountOf(PhaseDiagnostics, Diagnostic(MsgReadEntry, << d >>))
                   = IF fs[d].ok
                     THEN Cardinality({ e \in fs[d].entries : e.kind = "err" })
                     ELSE 0
    /\ pc = "walk" =>
         ENABLED (find_all_files_pop \/ find_all_files_entry \/ find_all_files_return)

\* the walk has returned from a tree with an unreadable directory and an
\* unreadable entry, and has delivered a file
C13_Witness ==
    /\ WalkReturned
    /\ \E d \in AllVisitedDirs(fs, cli.source_directory) : ~fs[d].ok
    /\ \E d \in AllVisitedDirs(fs, cli.source_directory) :
         fs[d].ok /\ \E e \in fs[d].entries : e.kind = "err"
    /\ sent # {}

(***************************************************************************)
(* C14.  A failure to read a line of the log is fatal: a run that ends     *)
(* successfully has read every line of the log.  The code does otherwise:  *)
(* map_while(Result::ok) ends the iteration at the first line whose read   *)
(* fails, find_all_lines returns as at the end of the log, and main        *)
(* writes the records of the lines before it and returns Ok.               *)
(***************************************************************************)
C14_ReadFailureIsFatal ==
    pc = "done" => \A i \in 1..Len(log) : log[i].ok

(***************************************************************************)
(* C15.  Once the pipeline runs no thread panics: the Synthesizer's        *)
(* assertion (line 180) and its unwrap of parent hold for every token list *)
(* it receives, the index builder's unwraps of file_name and parent hold   *)
(* for every path it receives, and main's join of the index builder        *)
(* succeeds.  The unwraps are also safe on every path text of at most      *)
(* MaxTokLen path characters, received or not.                             *)
(***************************************************************************)
C15_NoPanic ==
    /\ pc # "panicked"
    /\ \A t \in Threads : thr[t] # "panicked"
    /\ \A h \in SynthRuns : ~h.out.panicked
    /\ pc = "open_input" =>
         \A p \in Tokens : ~IndexPanics(p) /\ ~Synthesize(EmptyMap, << p >>).panicked

\* a finished run in which the index builder has entered a file and the
\* Synthesizer has passed the assertion and the unwrap for a bare name
C15_Witness ==
    /\ pc = "done"
    /\ DOMAIN tree # {}
    /\ \E h \in SynthRuns : IsBare(h.t) /\ h.out.cc # << >>

(***************************************************************************)
(* C16.  Every diagnostic sent is reported exactly once and in the order   *)
(* its producer sent it, no send waits for the error handler, and a phase  *)
(* ends only when all its diagnostics are reported:                        *)
(*  - the diagnostics reported followed by those still queued only ever    *)
(*    grow at the end, and so does what has been reported;                 *)
(*  - when the first phase has ended nothing is queued and the report      *)
(*    holds one diagnostic per read failure of the traversal;              *)
(*  - in the second phase the diagnostics after those of the first are     *)
(*    the Synthesizer's, in the order of its iterations; when the run is   *)
(*    done nothing is queued;                                              *)
(*  - a producer that has work can take its step whatever the length of    *)
(*    the error queue.                                                     *)
(***************************************************************************)
IsPrefix(a, b) == Len(a) <= Len(b) /\ SubSeq(b, 1, Len(a)) = a

\* the diagnostics of the Synthesizer's iterations h[1], h[2], .. in order
RECURSIVE DiagnosticsOf(_)
DiagnosticsOf(h) == IF h = << >> THEN << >> ELSE Head(h).out.diag \o DiagnosticsOf(Tail(h))

TraversalFailureCount == Cardinality(ReadFailures(fs, cli.source_directory))

DiagnosticsAccounted ==
    /\ pc = "scope2" =>
         /\ chan["error"].q = << >>
         /\ Len(stderr) = TraversalFailureCount
         /\ \A d \in AllVisitedDirs(fs, cli.source_directory) :
              /\ CountOf(stderr, Diagnostic(MsgReadDir, << d >>)) = IF fs[d].ok THEN 0 ELSE 1
              /\ CountOf(stderr, Diagnostic(MsgReadEntry, << d >>))
                   = IF fs[d].ok
                     THEN Cardinality({ e \in fs[d].entries : e.kind = "err" })
                     ELSE 0
    /\ InPhase2 =>
         /\ Len(PhaseDiagnostics) = TraversalFailureCount + Len(DiagnosticsOf(synth_hist))
         /\ SubSeq(PhaseDiagnostics, TraversalFailureCount + 1, Len(PhaseDiagnostics))
              = DiagnosticsOf(synth_hist)
    /\ pc = "done" => chan["error"].q = << >>
    /\ (thr["create_compile_commands"] = "running" /\ CanRecv("token"))
         => ENABLED create_compile_commands_recv
    /\ (pc = "walk" /\ (stack # << >> \/ reader.entries # {}))
         => ENABLED (find_all_files_pop \/ find_all_files_entry)

C16_DiagnosticsReported ==
    /\ [] DiagnosticsAccounted
    /\ [][ /\ IsPrefix(stderr, stderr')
           /\ IsPrefix(stderr \o chan["error"].q, stderr' \o chan'["error"].q) ]_vars

\* a finished run that reported two diagnostics of the traversal and, after
\* them, one of the Synthesizer
C16_Witness ==
    /\ pc = "done"
    /\ TraversalFailureCount >= 2
    /\ DiagnosticsOf(synth_hist) # << >>
    /\ Len(stderr) >= 3

(***************************************************************************)
(* C17.  The Writer runs once, after the Synthesizer has ended, and what   *)
(* it writes is the records the Synthesizer emitted, each once and nothing *)
(* else, whether or not lines were rejected:                               *)
(*  - a written output holds the records of the Synthesizer's iterations   *)
(*    and the Synthesizer has ended;                                       *)
(*  - a finished run has written its output;                               *)
(*  - an output once written is not written again.                         *)
(***************************************************************************)
\* the records of the Synthesizer's iterations h[1], h[2], .. in order
RECURSIVE EmittedBy(_)
EmittedBy(h) == IF h = << >> THEN << >> ELSE Head(h).out.cc \o EmittedBy(Tail(h))

Written == output_file.state = "written"

WrittenIsEmitted ==
    /\ Written =>
         /\ Ended("create_compile_commands")
         /\ \A r \in Range(EmittedBy(synth_hist)) :
              CountOf(output_file.records, r) = CountOf(EmittedBy(synth_hist), r)
         /\ Len(output_file.records) = Len(EmittedBy(synth_hist))
    /\ pc = "done" => Written

C17_WriterOnceAfterSynthesizer ==
    /\ [] WrittenIsEmitted
    /\ [][Written => output_file' = output_file]_vars

\* a finished run whose output holds a record while another line was rejected
C17_Witness ==
    /\ pc = "done"
    /\ Written
    /\ output_file.records # << >>
    /\ DiagnosticsOf(synth_hist) # << >>

(***************************************************************************)
(* C18.  The output keeps the order of the log: what the collector holds   *)
(* is at every moment a prefix of the records of the accepted lines taken  *)
(* in log order, and the written array is that sequence, so the record of  *)
(* an earlier line precedes the record of a later one in every             *)
(* interleaving.                                                           *)
(***************************************************************************)
C18_LogOrderPreserved ==
    /\ InPhase2 => IsPrefix(compile_commands, ExpectedRecords)
    /\ Written => output_file.records = ExpectedRecords

\* a written array of two different records
C18_Witness ==
    /\ Written
    /\ Len(output_file.records) >= 2
    /\ output_file.records[1] # output_file.records[2]

(***************************************************************************)
(* C19.  In the completed index an entry holds the empty path exactly when *)
(* its name was observed two or more times; the entry of a name observed   *)
(* once holds the directory of that file, which is not the empty path: a   *)
(* file directly under the root is entered with the root path.  The root   *)
(* is a directory, so its path is not empty, and the parent of a name      *)
(* joined to any non-empty root is not the empty path.                     *)
(***************************************************************************)
C19_EmptyMeansAmbiguous ==
    /\ IndexComplete =>
         \A n \in DOMAIN tree :
            /\ tree[n] = << >> <=> ObservedCount(n) >= 2
            /\ ObservedCount(n) = 1 =>
                 \A p \in sent : FileName(p) = Some(n) => Parent(p) = Some(tree[n])
            /\ (ObservedCount(n) = 1 /\ Join(cli.source_directory, n) \in sent)
                 => tree[n] = cli.source_directory
    /\ pc = "open_input" =>
         \A root \in Tokens :
            LET path == Join(root, S_main_cpp)
            IN /\ FileName(path) = Some(S_main_cpp)
               /\ IsSome(Parent(path))
               /\ Parent(path) # Some(<< >>)

\* a completed index with a cleared entry beside the entry of a file that
\* lies directly under the root
C19_Witness ==
    /\ IndexComplete
    /\ \E n \in DOMAIN tree : tree[n] = << >>
    /\ \E n \in DOMAIN tree :
         /\ ObservedCount(n) = 1
         /\ Join(cli.source_directory, n) \in sent
         /\ tree[n] = cli.source_directory

(***************************************************************************)
(* C20.  A fatal set-up error leaves the world as it was: when the input   *)
(* log cannot be opened or the root is not a directory the run fails, and  *)
(* in no state of that run has the output file been created or truncated,  *)
(* a channel been made or a thread been spawned.                           *)
(***************************************************************************)
SetupFatal == ~env.input_opens \/ ~env.root_is_dir

C20_FatalSetupLeavesOutput ==
    SetupFatal =>
        /\ pc \in {"open_input", "ensure_dir", "failed"}
        /\ output_file = [state |-> "previous", records |-> << >>]
        /\ \A t \in Threads : thr[t] = "unspawned"
        /\ \A c \in Channels : chan[c] = NoChannel
        /\ stderr = << >>

\* the run has failed on a root that is not a directory, after the input
\* log was opened
C20_Witness ==
    /\ pc = "failed"
    /\ env.input_opens
    /\ ~env.root_is_dir
    /\ output_file.state = "previous"

====
